---- MODULE Spec2Model ----
(***************************************************************************)
(* Model of plugin.py: one run of main() rotates a Kubernetes              *)
(* service-account token: Discover (list_k8s_secrets), Issue               *)
(* (create_service_account_token with its bounded poll), Publish           *)
(* (update_harness_secret, falling back to create_harness_secret),         *)
(* Cleanup (delete_k8s_secret per discovered secret) and Report            *)
(* (write_outputs, write_secret_outputs).  The cluster and the remote      *)
(* secret manager are the environment: every external call may be          *)
(* answered with an error.                                                 *)
(***************************************************************************)
EXTENDS Integers, Sequences, FiniteSets, TLC

VARIABLES
    cluster,   \* secret name -> "absent" | "pending" (no token key) | "ready"
    remote,    \* value stored under the remote secret identifier, or NoValue
    env,       \* run -> the process environment and clock of the run (never changes)
    pc,        \* run -> position of main()
    secrets,   \* run -> main's `secrets`, the list returned by list_k8s_secrets
    i,         \* run -> loop index of the poll loop (range(max_retries))
    token,     \* run -> main's `token`, NoToken until Issue returned
    response,  \* run -> kind of the last HTTP response of the remote secret manager
    idx,       \* run -> position of the cleanup loop in `secrets` (1-based)
    error,     \* run -> what ended the run abnormally, "none" otherwise
    outputs,   \* run -> the two output files, NoOutput until written
    calls,     \* run -> history of the external calls the run has made
    writes,    \* history: the runs whose PUT or POST was applied, in that order
    foreign    \* history: name -> "no" | "live" (the secret of that name was
               \* created by another actor after a Discover) | "deleted" (and a
               \* run has deleted it)

vars == <<cluster, remote, env, pc, secrets, i, token, response, idx, error,
          outputs, calls, writes, foreign>>

----------------------------------------------------------------------------
(* Bounds of the model *)

\* at most this many secrets exist in the namespace when a run starts
MaxExisting == 3

\* values of time.time() a run may start at: whole seconds and a fraction
Times == {[sec |-> 9, frac |-> 5], [sec |-> 10, frac |-> 0], [sec |-> 10, frac |-> 5]}

----------------------------------------------------------------------------
(* Strings are sequences of characters *)

Unset == <<"<unset>">>
NoValue == <<"<no such secret>">>
NoToken == <<"<no token>">>
NoOutput == <<"<not written>">>

\* Lower that leaves every character as it is (a case-sensitive search)
Lower_case_sensitive(c) == c

\* str.lower() on the characters used by the model
Lower(c) == CASE c = "S" -> "s" [] c = "A" -> "a" [] OTHER -> c

LowerStr(s) == [k \in 1..Len(s) |-> Lower(s[k])]

\* Python's `sub in s` on strings
Contains(sub, s) ==
    \E k \in 0..(Len(s) - Len(sub)) : SubSeq(s, k + 1, k + Len(sub)) = sub

DigitChar(d) ==
    CASE d = 0 -> "0" [] d = 1 -> "1" [] d = 2 -> "2" [] d = 3 -> "3"
      [] d = 4 -> "4" [] d = 5 -> "5" [] d = 6 -> "6" [] d = 7 -> "7"
      [] d = 8 -> "8" [] d = 9 -> "9"

\* the decimal rendering of a non-negative int in an f-string
RECURSIVE Decimal(_)
Decimal(n) ==
    IF n < 10 THEN <<DigitChar(n)>>
    ELSE Decimal(n \div 10) \o <<DigitChar(n % 10)>>

\* PLUGIN_SERVICE_ACCOUNT_NAME (its default stands for "harness-delegate-ng")
service_account_name == <<"s", "a">>

\* the secrets that may exist in the namespace, in the order the API lists them
NameOrder ==
    << <<"S", "A", "-", "0">>,
       <<"d", "b">>,
       <<"s", "a", "-", "1", "0">>,
       <<"s", "a", "-", "9">>,
       <<"x", "s", "a">> >>

Names == {NameOrder[k] : k \in 1..Len(NameOrder)}

\* the token the cluster mints for a token secret, and its base64 form in .data
TokenOf(name) == <<"jwt", name>>
B64Encode(t) == <<"b64", t>>
B64Decode(e) == e[2]

\* secret.data of a secret as read_namespaced_secret returns it
SecretData(name) ==
    IF cluster[name] = "ready" THEN [token |-> B64Encode(TokenOf(name))]
    ELSE [ca |-> <<"crt">>]

----------------------------------------------------------------------------
(* Settings of a run *)

Environments ==
    [ PLUGIN_HARNESS_ACCOUNT          : BOOLEAN,
      PLUGIN_HARNESS_PLATFORM_API_KEY : BOOLEAN,
      PLUGIN_SECRET_TAGS_IS_JSON      : BOOLEAN,
      PLUGIN_SECRET_IDENTIFIER        : {Unset, <<"c", "r", "e", "d">>},
      PLUGIN_DELETE_K8S_SECRETS       : {<<>>, <<"t", "r", "u", "e">>},
      now                             : Times ]

\* int() of a non-negative float: the fraction is dropped
int(t) == t.sec

\* current_unix_timestamp rounded to the nearest ten seconds
current_unix_timestamp_rounded(r) == ((int(env[r].now) + 5) \div 10) * 10

\* main: current_unix_timestamp = int(time.time())
current_unix_timestamp(r) == int(env[r].now)

\* main: new_token_name = f"{service_account_name}-{current_unix_timestamp}"
new_token_name(r) ==
    service_account_name \o <<"-">> \o Decimal(current_unix_timestamp(r))

\* main: secret_identifier = check_env("PLUGIN_SECRET_IDENTIFIER", service_account_name)
secret_identifier(r) ==
    IF env[r].PLUGIN_SECRET_IDENTIFIER = Unset THEN service_account_name
    ELSE env[r].PLUGIN_SECRET_IDENTIFIER

Existing(c) == {n \in Names : c[n] # "absent"}

Call(op, arg, res) == [op |-> op, arg |-> arg, res |-> res]

InitOf(runs) ==
    /\ cluster \in {c \in [Names -> {"absent", "pending", "ready"}] :
                        Cardinality(Existing(c)) <= MaxExisting}
    /\ remote \in {NoValue} \cup {TokenOf(n) : n \in {m \in Names : cluster[m] = "ready"}}
    /\ env \in [runs -> Environments]
    /\ pc = [r \in runs |-> "start"]
    /\ secrets = [r \in runs |-> <<>>]
    /\ i = [r \in runs |-> 0]
    /\ token = [r \in runs |-> NoToken]
    /\ response = [r \in runs |-> "none"]
    /\ idx = [r \in runs |-> 1]
    /\ error = [r \in runs |-> "none"]
    /\ outputs = [r \in runs |-> NoOutput]
    /\ calls = [r \in runs |-> <<>>]
    /\ writes = <<>>
    /\ foreign = [n \in Names |-> "no"]

Init == InitOf({1})

----------------------------------------------------------------------------
(* How a run ends *)

\* main returned (exit status 0) or the process died (exit status 1)
Terminal == {"reported", "returned", "exited", "raised"}

Runs == DOMAIN pc

Log(r, op, arg, res) == calls' = [calls EXCEPT ![r] = Append(@, Call(op, arg, res))]

\* check_env without a default: print "<name> required" and exit(1)
check_env_exit(r) ==
    /\ pc' = [pc EXCEPT ![r] = "exited"]
    /\ error' = [error EXCEPT ![r] = "ConfigError"]

\* an exception nothing in main catches: traceback, exit status 1
Uncaught(r, what) ==
    /\ pc' = [pc EXCEPT ![r] = "raised"]
    /\ error' = [error EXCEPT ![r] = what]

\* main_except without its `return`: the error is logged and main goes on
main_except_falls_through(r) ==
    /\ pc' = [pc EXCEPT ![r] = "cleanup"]
    /\ error' = [error EXCEPT ![r] = "PublishError"]

\* main: except Exception around update_harness_secret: log the error and return
main_except(r) ==
    /\ pc' = [pc EXCEPT ![r] = "returned"]
    /\ error' = [error EXCEPT ![r] = "PublishError"]

----------------------------------------------------------------------------
(* main, up to Discover *)

\* main: the settings read before the first external call
Configure(r) ==
    /\ pc[r] = "start"
    /\ IF ~env[r].PLUGIN_HARNESS_ACCOUNT
         THEN check_env_exit(r)
         ELSE IF ~env[r].PLUGIN_SECRET_TAGS_IS_JSON
                THEN Uncaught(r, "JSONDecodeError")
                ELSE /\ pc' = [pc EXCEPT ![r] = "discover"]
                     /\ UNCHANGED error
    /\ UNCHANGED <<cluster, remote, env, secrets, i, token, response, idx,
                   outputs, calls, writes, foreign>>

\* list_k8s_secrets: the matching secrets of the namespace, in list order
list_k8s_secrets(search_string) ==
    LET search_lower == LowerStr(search_string)
        matches(n) == /\ cluster[n] # "absent"
                      /\ \/ search_string = <<>>
                         \/ Contains(search_lower, LowerStr(n))
        info(n) == [name |-> n,
                    data_keys |-> IF cluster[n] = "ready" THEN <<"token">>
                                  ELSE <<"ca">>]
        found == SelectSeq(NameOrder, matches)
    IN  [k \in 1..Len(found) |-> info(found[k])]

\* list_raised that returns the empty list instead of raising
list_raised_returns_empty(r) ==
    /\ pc' = [pc EXCEPT ![r] = "issue"]
    /\ UNCHANGED error

\* list_k8s_secrets: except ApiException: print and raise
list_raised(r) == Uncaught(r, "ClusterApiError")

\* main: secrets = list_k8s_secrets(namespace, service_account_name)
Discover(r) ==
    /\ pc[r] = "discover"
    /\ \/ /\ secrets' = [secrets EXCEPT ![r] = list_k8s_secrets(service_account_name)]
          /\ Log(r, "list", service_account_name, "ok")
          /\ pc' = [pc EXCEPT ![r] = "issue"]
          /\ UNCHANGED error
       \/ /\ Log(r, "list", service_account_name, "error")
          /\ list_raised(r)
          /\ UNCHANGED secrets
    /\ UNCHANGED <<cluster, remote, env, i, token, response, idx, outputs,
                   writes, foreign>>

----------------------------------------------------------------------------
(* create_service_account_token *)

\* max_retries with one more attempt
max_retries_one_more == 10 + 1

\* max_retries = 10
max_retries == 10

\* range_continues of a loop without a bound (while True)
range_continues_forever(k) == k = k

\* range_continues of a loop that stops one iteration early
range_continues_stops_early(k) == k + 2 < max_retries

\* for i in range(max_retries): whether another iteration follows iteration k
range_continues(k) == k + 1 < max_retries

\* create_conflict without the 409 case: the conflict is raised like any error
create_conflict_raises(r) == Uncaught(r, "ClusterApiError")

\* except ApiException with e.status == 409: go on to read the existing secret
create_conflict(r) ==
    /\ pc' = [pc EXCEPT ![r] = "issue_read"]
    /\ UNCHANGED error

\* v1.create_namespaced_secret and the handling of its ApiException
IssueCreate(r) ==
    /\ pc[r] = "issue"
    /\ \/ /\ cluster[new_token_name(r)] = "absent"
          /\ cluster' = [cluster EXCEPT ![new_token_name(r)] = "pending"]
          /\ Log(r, "create", new_token_name(r), "ok")
          /\ pc' = [pc EXCEPT ![r] = "poll"]
          /\ UNCHANGED error
       \/ /\ cluster[new_token_name(r)] # "absent"
          /\ Log(r, "create", new_token_name(r), "409")
          /\ create_conflict(r)
          /\ UNCHANGED cluster
       \/ /\ Log(r, "create", new_token_name(r), "error")
          /\ Uncaught(r, "ClusterApiError")
          /\ UNCHANGED cluster
    /\ UNCHANGED <<remote, env, secrets, i, token, response, idx, outputs,
                   writes, foreign>>

\* the read_namespaced_secret of the 409 branch
IssueRead(r) ==
    /\ pc[r] = "issue_read"
    /\ \/ /\ cluster[new_token_name(r)] # "absent"
          /\ Log(r, "read", new_token_name(r), "ok")
          /\ pc' = [pc EXCEPT ![r] = "poll"]
          /\ UNCHANGED error
       \/ /\ Log(r, "read", new_token_name(r), "error")
          /\ Uncaught(r, "ClusterApiError")
    /\ UNCHANGED <<cluster, remote, env, secrets, i, token, response, idx, outputs,
                   writes, foreign>>

\* token_not_populated that returns the empty token instead of raising
token_not_populated_returns(r) ==
    /\ pc' = [pc EXCEPT ![r] = "publish"]
    /\ UNCHANGED error

\* the loop ran out: raise Exception("Token not populated after ... seconds")
token_not_populated(r) == Uncaught(r, "TokenNotReady")

\* one iteration of the poll loop: read the secret, return its token or sleep
Poll(r) ==
    /\ pc[r] = "poll"
    /\ i[r] < max_retries
    /\ \/ /\ cluster[new_token_name(r)] # "absent"
          /\ "token" \in DOMAIN SecretData(new_token_name(r))
          /\ Log(r, "poll", new_token_name(r), "ready")
          /\ token' = [token EXCEPT ![r] = B64Decode(SecretData(new_token_name(r)).token)]
          /\ pc' = [pc EXCEPT ![r] = "publish"]
          /\ UNCHANGED <<i, error>>
       \/ /\ cluster[new_token_name(r)] # "absent"
          /\ "token" \notin DOMAIN SecretData(new_token_name(r))
          /\ Log(r, "poll", new_token_name(r), "pending")
          /\ i' = [i EXCEPT ![r] = @ + 1]
          /\ IF range_continues(i[r]) THEN UNCHANGED <<pc, error>>
                                      ELSE token_not_populated(r)
          /\ UNCHANGED token
       \/ /\ Log(r, "poll", new_token_name(r), "error")
          /\ Uncaught(r, "ClusterApiError")
          /\ UNCHANGED <<i, token>>
    /\ UNCHANGED <<cluster, remote, env, secrets, response, idx, outputs,
                   writes, foreign>>

\* the cluster's token controller fills in the token of a pending secret
ClusterPopulate ==
    /\ \E n \in Names :
          /\ cluster[n] = "pending"
          /\ cluster' = [cluster EXCEPT ![n] = "ready"]
    /\ UNCHANGED <<remote, env, pc, secrets, i, token, response, idx, error,
                   outputs, calls, writes, foreign>>

----------------------------------------------------------------------------
(* update_harness_secret, create_harness_secret *)

\* what the secret manager may answer to PUT .../secrets/{identifier}
PutResponses == IF remote = NoValue THEN {"not_found", "error", "not_json"}
                ELSE {"ok", "error", "not_json"}

\* what the secret manager may answer to POST .../secrets
PostResponses == IF remote = NoValue THEN {"ok", "error"} ELSE {"duplicate", "error"}

\* Request that sends the name of the token secret in place of the token
Request_sends_name(r) ==
    [identifier |-> secret_identifier(r), value |-> new_token_name(r),
     existed |-> remote # NoValue]

\* the payload sent for the identifier, and whether the identifier existed then
Request(r) == [identifier |-> secret_identifier(r), value |-> token[r],
               existed |-> remote # NoValue]

\* no_such_secret_found that takes every failed update for a missing secret
no_such_secret_found_any_error(resp) == resp # "ok"

\* update_harness_secret: "No such secret found" in data.get("message")
no_such_secret_found(resp) == resp = "not_found"

\* update_harness_secret up to the end of its except clause: the API key is
\* looked up, the PUT is sent, and its answer decides between returning True,
\* calling create_harness_secret and raising
PublishPut(r) ==
    /\ pc[r] = "publish"
    /\ IF ~env[r].PLUGIN_HARNESS_PLATFORM_API_KEY
         THEN /\ check_env_exit(r)
              /\ UNCHANGED <<remote, response, calls, writes>>
         ELSE \E resp \in PutResponses :
                /\ Log(r, "put", Request(r), resp)
                /\ response' = [response EXCEPT ![r] = resp]
                /\ IF resp = "ok"
                     THEN /\ remote' = Request(r).value
                          /\ writes' = Append(writes, r)
                          /\ pc' = [pc EXCEPT ![r] = "cleanup"]
                          /\ UNCHANGED error
                     ELSE /\ UNCHANGED <<remote, writes>>
                          /\ IF no_such_secret_found(resp)
                               THEN /\ pc' = [pc EXCEPT ![r] = "create"]
                                    /\ UNCHANGED error
                               ELSE main_except(r)
    /\ UNCHANGED <<cluster, env, secrets, i, token, idx, outputs, foreign>>

\* create_raised that swallows the failure: the upsert returns True
create_raised_swallowed(r) ==
    /\ pc' = [pc EXCEPT ![r] = "cleanup"]
    /\ UNCHANGED error

\* create_harness_secret: raise_for_status failed, the exception is re-raised
\* by update_harness_secret (raise f) and reaches main's except clause
create_raised(r) == main_except(r)

\* create_harness_secret, called from the except clause of update_harness_secret
PublishPost(r) ==
    /\ pc[r] = "create"
    /\ \E resp \in PostResponses :
          /\ Log(r, "post", Request(r), resp)
          /\ response' = [response EXCEPT ![r] = resp]
          /\ IF resp = "ok"
               THEN /\ remote' = Request(r).value
                    /\ writes' = Append(writes, r)
                    /\ pc' = [pc EXCEPT ![r] = "cleanup"]
                    /\ UNCHANGED error
               ELSE /\ UNCHANGED <<remote, writes>>
                    /\ create_raised(r)
    /\ UNCHANGED <<cluster, env, secrets, i, token, idx, outputs, foreign>>

----------------------------------------------------------------------------
(* main, after Publish *)

\* delete_k8s_secrets that ignores the setting
delete_k8s_secrets_always(r) == r = r

\* main: if check_env("PLUGIN_DELETE_K8S_SECRETS", ""): a non-empty string
delete_k8s_secrets(r) == Len(env[r].PLUGIN_DELETE_K8S_SECRETS) > 0

\* delete_k8s_secret raised ApiException inside main's for loop
delete_raised(r) == Uncaught(r, "CleanupError")

\* one iteration of main's for loop: delete_k8s_secret(namespace, secret["name"])
Cleanup(r) ==
    /\ pc[r] = "cleanup"
    /\ delete_k8s_secrets(r)
    /\ idx[r] <= Len(secrets[r])
    /\ \/ /\ cluster[secrets[r][idx[r]].name] # "absent"
          /\ cluster' = [cluster EXCEPT ![secrets[r][idx[r]].name] = "absent"]
          /\ Log(r, "delete", secrets[r][idx[r]].name, "ok")
          /\ foreign' = [foreign EXCEPT ![secrets[r][idx[r]].name] =
                            IF @ = "live" THEN "deleted" ELSE @]
          /\ idx' = [idx EXCEPT ![r] = @ + 1]
          /\ UNCHANGED <<pc, error>>
       \/ /\ Log(r, "delete", secrets[r][idx[r]].name,
                 IF cluster[secrets[r][idx[r]].name] = "absent" THEN "not_found"
                 ELSE "error")
          /\ delete_raised(r)
          /\ UNCHANGED <<cluster, idx, foreign>>
    /\ UNCHANGED <<remote, env, secrets, i, token, response, outputs, writes>>

\* rotation_result with the two names exchanged
rotation_result_swapped(r) ==
    [created_token |-> secret_identifier(r),
     updated_secret |-> new_token_name(r),
     token |-> token[r]]

\* main: the dicts handed to write_outputs and write_secret_outputs
rotation_result(r) ==
    [created_token |-> new_token_name(r),
     updated_secret |-> secret_identifier(r),
     token |-> token[r]]

\* main: write_outputs and write_secret_outputs
Report(r) ==
    /\ pc[r] = "cleanup"
    /\ ~delete_k8s_secrets(r) \/ idx[r] > Len(secrets[r])
    /\ outputs' = [outputs EXCEPT ![r] = rotation_result(r)]
    /\ pc' = [pc EXCEPT ![r] = "reported"]
    /\ UNCHANGED <<cluster, remote, env, secrets, i, token, response, idx,
                   error, calls, writes, foreign>>

\* the exit status of the process once the run has ended
ExitStatus(r) == IF pc[r] \in {"reported", "returned"} THEN 0 ELSE 1

----------------------------------------------------------------------------

Next ==
    \/ \E r \in Runs : Configure(r)
    \/ \E r \in Runs : Discover(r)
    \/ \E r \in Runs : IssueCreate(r)
    \/ \E r \in Runs : IssueRead(r)
    \/ \E r \in Runs : Poll(r)
    \/ \E r \in Runs : PublishPut(r)
    \/ \E r \in Runs : PublishPost(r)
    \/ \E r \in Runs : Cleanup(r)
    \/ \E r \in Runs : Report(r)
    \/ ClusterPopulate

Spec == Init /\ [][Next]_vars

----------------------------------------------------------------------------
(* A run beside another actor of the namespace *)

\* the secrets another actor of the namespace creates and deletes
OtherNames == {<<"x", "s", "a">>}

\* some run has its Discover behind it
Discovered == \E r \in Runs : pc[r] \notin {"start", "discover"}

\* another actor creates a secret
OtherCreate ==
    /\ \E n \in OtherNames :
          /\ cluster[n] = "absent"
          /\ cluster' = [cluster EXCEPT ![n] = "pending"]
          /\ foreign' = [foreign EXCEPT ![n] =
                            IF @ = "no" /\ Discovered THEN "live" ELSE @]
    /\ UNCHANGED <<remote, env, pc, secrets, i, token, response, idx, error,
                   outputs, calls, writes>>

\* another actor deletes a secret
OtherDelete ==
    /\ \E n \in OtherNames :
          /\ cluster[n] # "absent"
          /\ cluster' = [cluster EXCEPT ![n] = "absent"]
          /\ foreign' = [foreign EXCEPT ![n] = IF @ = "live" THEN "no" ELSE @]
    /\ UNCHANGED <<remote, env, pc, secrets, i, token, response, idx, error,
                   outputs, calls, writes>>

\* a fully configured run in a namespace that holds at most the secrets the
\* other actor manages and two secrets of earlier runs
InitActors ==
    /\ InitOf({1})
    /\ Existing(cluster) \subseteq
          OtherNames \cup {<<"s", "a", "-", "9">>, <<"S", "A", "-", "0">>}
    /\ env[1].PLUGIN_HARNESS_ACCOUNT
    /\ env[1].PLUGIN_SECRET_TAGS_IS_JSON
    /\ env[1].PLUGIN_HARNESS_PLATFORM_API_KEY

NextActors == Next \/ OtherCreate \/ OtherDelete

SpecActors == InitActors /\ [][NextActors]_vars

----------------------------------------------------------------------------
(* Two invocations at once *)

\* two fully configured runs of the same service account and remote
\* identifier, in a namespace that holds at most one older secret; the
\* second starts at 10.0, the first before it, with it or after it
InitConcurrent ==
    /\ InitOf({1, 2})
    /\ Existing(cluster) \subseteq {<<"x", "s", "a">>}
    /\ cluster[<<"x", "s", "a">>] # "pending"
    /\ env[2].now = [sec |-> 10, frac |-> 0]
    /\ env[1].PLUGIN_DELETE_K8S_SECRETS = env[2].PLUGIN_DELETE_K8S_SECRETS
    /\ \A r \in {1, 2} :
          /\ env[r].PLUGIN_HARNESS_ACCOUNT
          /\ env[r].PLUGIN_SECRET_TAGS_IS_JSON
          /\ env[r].PLUGIN_HARNESS_PLATFORM_API_KEY
          /\ env[r].PLUGIN_SECRET_IDENTIFIER = Unset

SpecConcurrent == InitConcurrent /\ [][Next]_vars

----------------------------------------------------------------------------
(* A run that is scheduled until it ends *)

\* a step of run r: main is sequential and every call it waits for is answered
RunStep(r) ==
    \/ Configure(r) \/ Discover(r) \/ IssueCreate(r) \/ IssueRead(r) \/ Poll(r)
    \/ PublishPut(r) \/ PublishPost(r) \/ Cleanup(r) \/ Report(r)

SpecFair == Init /\ [][Next]_vars /\ WF_vars(RunStep(1))

----------------------------------------------------------------------------
(* The history of a run, as the claims read it *)

CallsOf(r, ops) == SelectSeq(calls[r], LAMBDA c : c.op \in ops)

Polls(r) == CallsOf(r, {"poll"})

RemoteCalls(r) == CallsOf(r, {"put", "post"})

Deletes(r) == CallsOf(r, {"delete"})

At(r, ops) == {k \in 1..Len(calls[r]) : calls[r][k].op \in ops}

PublishedBefore(r, k) ==
    \E j \in 1..(k - 1) : calls[r][j].op \in {"put", "post"} /\ calls[r][j].res = "ok"

PublishFailed(r) ==
    \E k \in At(r, {"put", "post"}) : calls[r][k].res \notin {"ok", "not_found"}

----------------------------------------------------------------------------
(* C1..C10 *)

\* C1: no delete_k8s_secret call happens before update_harness_secret has
\* succeeded (a PUT or the fallback POST answered ok), and a run whose publish
\* failed has made no deletion at all.
C1_DeleteOnlyAfterPublish ==
    \A r \in Runs :
        /\ \A k \in At(r, {"delete"}) : PublishedBefore(r, k)
        /\ (PublishFailed(r) \/ error[r] = "PublishError") => Deletes(r) = <<>>

\* a deletion has happened, after a publish that went through the fallback create
C1_Witness ==
    \E r \in Runs :
        /\ Deletes(r) # <<>>
        /\ \E k \in At(r, {"post"}) : calls[r][k].res = "ok"

\* C2: the cluster secret holding the token stored in the remote secret
\* exists in the cluster, in every state of a run that started that way.
C2_RemoteTokenBacked ==
    remote # NoValue =>
        \E n \in Names : cluster[n] = "ready" /\ TokenOf(n) = remote

\* C3: every PUT or POST is sent with a token that a poll of this run read,
\* and a run whose Issue failed (token never ready, or cluster API error)
\* has sent no remote request.
C3_RemoteOnlyWithToken ==
    \A r \in Runs :
        /\ \A k \in At(r, {"put", "post"}) :
              /\ token[r] # NoToken
              /\ calls[r][k].arg.value = token[r]
              /\ \E j \in 1..(k - 1) :
                    calls[r][j].op = "poll" /\ calls[r][j].res = "ready"
        /\ error[r] \in {"TokenNotReady", "ClusterApiError"} => RemoteCalls(r) = <<>>

\* Issue failed because the token never became ready
C3_Witness ==
    \E r \in Runs : error[r] = "TokenNotReady" /\ Len(Polls(r)) > 0

\* C4: the upsert sends the PUT first and at most one POST; an identifier that
\* exists gets the PUT only; a PUT answered not-found is followed by exactly
\* one POST and no further PUT, and the upsert succeeds when that POST does.
C4_UpdateThenCreateOnce ==
    \A r \in Runs :
        LET rc == RemoteCalls(r) IN
        /\ Len(rc) <= 2
        /\ Len(rc) >= 1 => rc[1].op = "put"
        /\ Len(rc) = 2 => rc[1].res = "not_found" /\ rc[2].op = "post"
        /\ (Len(rc) >= 1 /\ rc[1].arg.existed) => Len(rc) = 1
        /\ (Len(rc) = 1 /\ rc[1].res = "not_found") => pc[r] = "create"
        /\ (Len(rc) = 2 /\ rc[2].res = "ok") =>
              /\ error[r] # "PublishError"
              /\ pc[r] \in {"cleanup", "reported", "raised"}

\* a not-found PUT was followed by a successful POST
C4_Witness ==
    \E r \in Runs :
        /\ Len(RemoteCalls(r)) = 2
        /\ RemoteCalls(r)[1].res = "not_found"
        /\ RemoteCalls(r)[2].res = "ok"

\* C5: a token secret that never carries token material makes Issue fail with
\* the token-not-ready error after exactly 10 reads of the poll loop; there
\* is never an 11th read.
C5_NotReadyAfterTenPolls ==
    \A r \in Runs :
        /\ Len(Polls(r)) <= 10
        /\ error[r] = "TokenNotReady" =>
              /\ Len(Polls(r)) = 10
              /\ \A k \in 1..10 : Polls(r)[k].res = "pending"
        /\ (Len(Polls(r)) = 10 /\ Polls(r)[10].res = "pending") =>
              error[r] = "TokenNotReady" /\ pc[r] = "raised"

\* ten polls found no token and Issue failed
C5_Witness ==
    \E r \in Runs : error[r] = "TokenNotReady" /\ Len(Polls(r)) = 10

\* C6: when the token is first present at poll attempt k (1 <= k <= 10), Issue
\* returns that token after exactly k attempts; Issue does not give up while
\* fewer than 10 attempts have found the token absent.
C6_ReadyAtKReturnsToken ==
    \A r \in Runs :
        LET polls == Polls(r) IN
        /\ \A k \in 1..Len(polls) :
              polls[k].res = "ready" =>
                  /\ k = Len(polls)
                  /\ k <= 10
                  /\ \A j \in 1..(k - 1) : polls[j].res = "pending"
                  /\ token[r] = TokenOf(new_token_name(r))
                  /\ error[r] # "TokenNotReady"
                  /\ pc[r] # "poll"
        /\ (Len(polls) < 10 /\ Len(polls) >= 1 /\ polls[Len(polls)].res = "pending") =>
              pc[r] = "poll" /\ error[r] = "none"
        /\ token[r] # NoToken => Len(polls) >= 1 /\ polls[Len(polls)].res = "ready"

\* the token became present exactly at the tenth attempt and was returned
C6_Witness ==
    \E r \in Runs :
        /\ Len(Polls(r)) = 10
        /\ Polls(r)[10].res = "ready"
        /\ token[r] = TokenOf(new_token_name(r))

\* C7: a failed deletion does not stop Cleanup: once the run has ended, every
\* discovered secret other than the one whose deletion failed has been deleted.
C7_CleanupContinuesAfterFailure ==
    \A r \in Runs :
        (pc[r] \in Terminal /\ Deletes(r) # <<>>) =>
            \A k \in 1..Len(secrets[r]) :
                \/ \E j \in At(r, {"delete"}) :
                      /\ calls[r][j].arg = secrets[r][k].name
                      /\ calls[r][j].res # "ok"
                \/ cluster[secrets[r][k].name] = "absent"

\* C8: a run whose Publish succeeded and in which a deletion failed still
\* ends in Report with created_token, updated_secret and the token written.
C8_DeleteFailureStillReports ==
    \A r \in Runs :
        (pc[r] \in Terminal /\ \E j \in At(r, {"delete"}) : calls[r][j].res # "ok") =>
            /\ pc[r] = "reported"
            /\ outputs[r] = [created_token |-> new_token_name(r),
                             updated_secret |-> secret_identifier(r),
                             token |-> token[r]]

\* C9: a run ended by a fatal failure (discovery, issue, token not ready,
\* publish) ends with a failure exit status, never as a normal return.
C9_FatalFailureExitsNonZero ==
    \A r \in Runs :
        (/\ pc[r] \in Terminal
         /\ error[r] \in {"ClusterApiError", "TokenNotReady", "PublishError"}) =>
            ExitStatus(r) # 0

\* C10: when a required setting is absent the run has made no external call
\* (no list, no token-secret creation, no remote request) when it aborts.
C10_ConfigErrorBeforeAnyCall ==
    \A r \in Runs : error[r] = "ConfigError" => calls[r] = <<>>

----------------------------------------------------------------------------
(* C11..C20 *)

LastCall(r) == calls[r][Len(calls[r])]

\* C11: delete_k8s_secret on a name that is no longer in the cluster does not
\* raise: a deletion that finds the secret absent does not fail the run.
C11_DeleteAbsentIsSuccess ==
    \A r \in Runs :
        \A j \in At(r, {"delete"}) :
            calls[r][j].res = "not_found" =>
                error[r] # "CleanupError" /\ pc[r] # "raised"

\* C12: a 409 answer to the create does not fail Issue: the run reads the
\* existing secret, polls it and returns its token; any other create error
\* ends the run without a single poll.
C12_ConflictProceedsToPoll ==
    \A r \in Runs :
        LET creates == CallsOf(r, {"create"}) IN
        /\ Len(creates) <= 1
        /\ (calls[r] # <<>> /\ LastCall(r).op = "create" /\ LastCall(r).res = "409") =>
              pc[r] = "issue_read" /\ error[r] = "none"
        /\ (calls[r] # <<>> /\ LastCall(r).op = "read" /\ LastCall(r).res = "ok") =>
              pc[r] = "poll" /\ error[r] = "none"
        /\ (Len(creates) = 1 /\ creates[1].res = "409" /\ token[r] # NoToken) =>
              /\ token[r] = TokenOf(creates[1].arg)
              /\ Polls(r) # <<>>
        /\ (Len(creates) = 1 /\ creates[1].res = "error") =>
              /\ Polls(r) = <<>>
              /\ CallsOf(r, {"read"}) = <<>>
              /\ error[r] = "ClusterApiError"
              /\ pc[r] = "raised"

\* the create was answered 409 and Issue returned the existing secret's token
C12_Witness ==
    \E r \in Runs :
        /\ \E k \in At(r, {"create"}) : calls[r][k].res = "409"
        /\ token[r] = TokenOf(new_token_name(r))

\* C13: a run whose PLUGIN_DELETE_K8S_SECRETS is unset or empty makes no
\* deletion, whatever it discovered and however its publish ended.
C13_NoCleanupWithoutFlag ==
    \A r \in Runs :
        Len(env[r].PLUGIN_DELETE_K8S_SECRETS) = 0 => Deletes(r) = <<>>

\* a run without the flag published, had discovered secrets, and reported
C13_Witness ==
    \E r \in Runs :
        /\ Len(env[r].PLUGIN_DELETE_K8S_SECRETS) = 0
        /\ pc[r] = "reported"
        /\ Len(secrets[r]) > 0

\* C14: an update rejected for a reason other than not-found makes the upsert
\* fail without a create; a create that fails after a not-found update makes
\* the upsert fail; when the create succeeds the upsert does not fail.
C14_UpsertFailuresPropagate ==
    \A r \in Runs :
        LET rc == RemoteCalls(r) IN
        /\ (Len(rc) >= 1 /\ rc[1].res \in {"error", "not_json"}) =>
              /\ Len(rc) = 1
              /\ error[r] = "PublishError"
              /\ pc[r] = "returned"
        /\ (Len(rc) = 2 /\ rc[2].res # "ok") =>
              /\ error[r] = "PublishError"
              /\ pc[r] = "returned"
        /\ (Len(rc) = 2 /\ rc[2].res = "ok") => error[r] # "PublishError"
        /\ error[r] = "PublishError" =>
              /\ Len(rc) >= 1
              /\ rc[Len(rc)].res \notin {"ok", "not_found"}

\* the create that followed a not-found update failed, and so did the upsert
C14_Witness ==
    \E r \in Runs :
        /\ Len(RemoteCalls(r)) = 2
        /\ RemoteCalls(r)[2].res = "error"
        /\ error[r] = "PublishError"

\* the name a run asked the cluster to create its token secret under
CreatedName(r) == CallsOf(r, {"create"})[1].arg

Created(r) == CallsOf(r, {"create"}) # <<>>

\* C15 as stated: two rotations of the same service account started at
\* different times ask for distinct token-secret names.
C15_DifferentTimesDistinctNames ==
    \A r1, r2 \in Runs :
        (Created(r1) /\ Created(r2) /\ env[r1].now # env[r2].now) =>
            CreatedName(r1) # CreatedName(r2)

\* C15, amended: two rotations ask for distinct token-secret names exactly
\* when their start times differ in their whole seconds; the name is the
\* service-account name, "-" and the decimal whole seconds.
C15_DifferentSecondsDistinctNames ==
    \A r1, r2 \in Runs :
        (Created(r1) /\ Created(r2)) =>
            /\ (CreatedName(r1) = CreatedName(r2)) <=> (int(env[r1].now) = int(env[r2].now))
            /\ CreatedName(r1) =
                  service_account_name \o <<"-">> \o Decimal(env[r1].now.sec)

\* two rotations started in different seconds have both asked for their name
C15_Witness ==
    \E r1, r2 \in Runs :
        /\ Created(r1) /\ Created(r2)
        /\ int(env[r1].now) # int(env[r2].now)
        /\ CreatedName(r1) # CreatedName(r2)

\* C16: a run whose Discover failed has stopped there: the failed list is its
\* only external call (no create, no remote request, no deletion), it holds
\* no token and has written no output.
C16_DiscoverFailureChangesNothing ==
    \A r \in Runs :
        (\E k \in At(r, {"list"}) : calls[r][k].res = "error") =>
            /\ Len(calls[r]) = 1
            /\ pc[r] = "raised"
            /\ token[r] = NoToken
            /\ outputs[r] = NoOutput

\* Discover failed
C16_Witness ==
    \E r \in Runs :
        /\ calls[r] # <<>>
        /\ LastCall(r).op = "list" /\ LastCall(r).res = "error"
        /\ error[r] = "ClusterApiError"

DiscoveredNames(r) == {secrets[r][k].name : k \in 1..Len(secrets[r])}

DeletedNames(r) ==
    {calls[r][j].arg : j \in {k \in At(r, {"delete"}) : calls[r][k].res = "ok"}}

\* the names of the namespace that contain "sa" in any case
MatchingNames ==
    {<<"S", "A", "-", "0">>, <<"s", "a", "-", "1", "0">>, <<"s", "a", "-", "9">>,
     <<"x", "s", "a">>}

\* what C17 says of the discovered and the deleted set of a run
DeletesWithinDiscovered(r) ==
    /\ DeletedNames(r) \subseteq DiscoveredNames(r)
    /\ DiscoveredNames(r) \subseteq MatchingNames
    /\ pc[r] = "issue" =>
          \A n \in MatchingNames \ OtherNames :
              cluster[n] # "absent" => n \in DiscoveredNames(r)
    /\ (pc[r] = "reported" /\ delete_k8s_secrets(r)) =>
          DeletedNames(r) = DiscoveredNames(r)

\* C17 as stated: a run deletes only secrets of its Discover result (the
\* names containing the service-account name in any case), all of them when
\* cleanup is enabled and everything succeeds, and never a secret that
\* another actor created after Discover.
C17_NeverDeletesLaterSecret ==
    /\ \A r \in Runs : DeletesWithinDiscovered(r)
    /\ \A n \in Names : foreign[n] # "deleted"

\* C17, amended: as stated, except that a secret created by another actor
\* after Discover is safe from this run only if its name is not in the
\* Discover result: deletion is by name.
C17_DeletesOnlyDiscoveredNames ==
    /\ \A r \in Runs : DeletesWithinDiscovered(r)
    /\ \A n \in Names :
          foreign[n] = "deleted" => \E r \in Runs : n \in DiscoveredNames(r)
    /\ \A n \in Names :
          (foreign[n] = "live" /\ \A r \in Runs : n \notin DiscoveredNames(r)) =>
              cluster[n] # "absent"

\* a run deleted all it discovered and left alone the secret that another
\* actor created after Discover
C17_Witness ==
    \E r \in Runs :
        /\ pc[r] = "reported"
        /\ DeletedNames(r) # {}
        /\ \E n \in Names :
              foreign[n] = "live" /\ n \notin DiscoveredNames(r) /\ cluster[n] # "absent"

Written(r) == pc[r] = "reported"

\* what the outputs of a run say, once written
OutputsMatchRun(r) ==
    /\ outputs[r].created_token = CreatedName(r)
    /\ \E k \in At(r, {"put", "post"}) :
          /\ calls[r][k].res = "ok"
          /\ outputs[r].updated_secret = calls[r][k].arg.identifier
          /\ outputs[r].token = calls[r][k].arg.value

\* C18: the outputs are written only after Publish succeeded and at most
\* once; created_token is the token secret issued in this run,
\* updated_secret the upserted identifier, token the value written remotely.
C18_OutputsOnceAfterPublish ==
    /\ [](\A r \in Runs :
            IF Written(r) THEN OutputsMatchRun(r) ELSE outputs[r] = NoOutput)
    /\ [][\A r \in Runs : Written(r) => outputs'[r] = outputs[r]]_vars

\* the outputs were written for a custom identifier created by the fallback
C18_Witness ==
    \E r \in Runs :
        /\ Written(r)
        /\ outputs[r].updated_secret = <<"c", "r", "e", "d">>
        /\ \E k \in At(r, {"post"}) : calls[r][k].res = "ok"

Ended(r) == pc[r] \in Terminal

\* no call of the run was answered with a fault of the cluster or of the
\* secret manager, and its token became ready in time
NoFault(r) ==
    /\ \A k \in 1..Len(calls[r]) : calls[r][k].res \notin {"error", "not_json"}
    /\ error[r] # "TokenNotReady"

Published(r) == \E k \in At(r, {"put", "post"}) : calls[r][k].res = "ok"

LastWriter == writes[Len(writes)]

C20_EveryRunTerminates == <>(\A r \in Runs : Ended(r))

\* the longest run: ten polls, an update and a create, and a cleanup that
\* deleted every discovered secret
C20_Witness ==
    \E r \in Runs :
        /\ pc[r] = "reported"
        /\ Len(Polls(r)) = max_retries
        /\ Len(RemoteCalls(r)) = 2
        /\ Len(secrets[r]) >= 2
        /\ Len(Deletes(r)) = Len(secrets[r])

====
